---- MODULE Spec2Model ----
(***************************************************************************)
(* A model of two parts of the meeting application:                        *)
(*                                                                         *)
(*  - the voteForReflectionGroup mutation resolver, run by several         *)
(*    concurrent requests against the shared RetroReflectionGroup,         *)
(*    NewMeeting and MeetingMember tables (specification Spec);            *)
(*  - the PhaseItemEditor component's "is editing" bookkeeping: its        *)
(*    isEditing state, its idle timer and the EditReflectionMutation       *)
(*    calls it sends (specifications EditorSpec and FairEditorSpec);       *)
(*  - the PhaseItemEditor component's cards in flight: the list, the       *)
(*    portal that shows it, and the animation-frame, transition-end and    *)
(*    timeout callbacks that move and remove cards (FlightSpec);           *)
(*  - the StageTimerModalEndTimeSlackToggle component: its clicks and the  *)
(*    SetSlackNotificationMutation requests they send (ToggleSpec).        *)
(*                                                                         *)
(* Every await of the resolver is a point where another request may run,   *)
(* so each await-to-await section is one action.                           *)
(***************************************************************************)
EXTENDS Integers, Sequences, FiniteSets, TLC

\* ----------------------------------------------------------------- bounds
\* number of voteForReflectionGroup requests in one behaviour
MaxCalls == 2
\* votes each meeting member starts with (meeting.totalVotes)
TotalVotes == 2
\* votes one member may give to one group (meeting.maxVotesPerGroup)
MaxVotesPerGroup == 1
\* stages of the discuss phase
NumDiscussStages == 2
\* focus / key / blur events one editor receives in one behaviour
MaxEvents == 4
\* reflections one editor submits in one behaviour
MaxSubmits == 2
\* clicks one Slack toggle receives in one behaviour
MaxClicks == 4

\* ------------------------------------------------------------ identifiers
Calls == 1..MaxCalls
Users == {"u1", "u2"}
Groups == {"g1", "g2"}
\* a reflectionGroupId with no row in RetroReflectionGroup
NoGroup == "g0"
MeetingId == "m1"
TeamId == "t1"
Null == "null"

VARIABLES
  \* --- database tables
  RetroReflectionGroup, \* group id -> [isActive, meetingId, voterIds]
  NewMeeting,           \* the meeting row: [endedAt, phases, maxVotesPerGroup, teamId]
  MeetingMember,        \* user id -> None or Some([votesRemaining])
  tms,                  \* user id -> the team ids in the user's authToken
  \* --- the resolver
  calls,                \* request -> the locals of that resolve() invocation
  published,            \* request -> the notifications it has published, in order
  \* --- history
  trace,                \* request -> the effects it has had, in order
  persisted,            \* request -> the meeting's phases right after its update
  overlapped,           \* TRUE once a request started while another was running
  \* --- PhaseItemEditor
  mounted,              \* the component is mounted
  isEditing,            \* useState(false)
  idleTimerIdRef,       \* useRef<number>(): 0 (undefined) or a timer id
  timers,               \* window's pending timers: a set of [id, remaining ms]
  nextTimerId,          \* the id window.setTimeout returns next
  sent,                 \* the isEditing values sent by EditReflectionMutation
  idleFor,              \* ms since the last ensureEditing (capped at IdleDelay)
  idleFiredAfter,       \* idleFor when the idle callback last ran, or -1
  lastEvent,            \* the handler that ran last
  eventsLeft,           \* user events still allowed by MaxEvents
  \* --- PhaseItemEditor, cards in flight
  cardsInFlight,        \* cardsInFlightRef.current: a sequence of cards
  portalOpen,           \* usePortal: the portal is open
  rafQueue,             \* contents whose requestAnimationFrame callback is pending
  flightTimers,         \* pending removeCardInFlight timeouts: [content, remaining ms]
  nextContent,          \* the next submission's content
  lastRemoval,          \* the last removeCardInFlight call: what it did
  \* --- StageTimerModalEndTimeSlackToggle
  integrations,         \* facilitator.integrations: mattermost, slack
  submitting,           \* useMutationProps: a mutation is being submitted
  error,                \* useMutationProps: the last error, None or Some
  slackMutations,       \* SetSlackNotificationMutation requests in flight
  oauthOpened,          \* SlackClientManager.openOAuth calls made
  clicksLeft,           \* clicks still allowed by MaxClicks
  lastClick             \* the last click: submitting at the click, what it did

dbVars == <<RetroReflectionGroup, NewMeeting, MeetingMember, tms>>
voteVars == <<RetroReflectionGroup, NewMeeting, MeetingMember, tms, calls,
              published, trace, persisted, overlapped>>
editorVars == <<mounted, isEditing, idleTimerIdRef, timers, nextTimerId, sent,
                idleFor, idleFiredAfter, lastEvent, eventsLeft>>
flightVars == <<cardsInFlight, portalOpen, rafQueue, flightTimers, nextContent,
                lastRemoval>>
toggleVars == <<integrations, submitting, error, slackMutations, oauthOpened,
                clicksLeft, lastClick>>
vars == <<voteVars, editorVars, flightVars, toggleVars>>

\* ---------------------------------------------------------------- helpers
Min(S) == CHOOSE x \in S : \A y \in S : x <= y

RECURSIVE SumVotes(_, _)
\* reflectionGroups.reduce((sum, group) => sum + group.voterIds.length, 0)
SumVotes(table, gs) ==
  IF gs = {} THEN 0
  ELSE LET g == CHOOSE x \in gs : TRUE
       IN Len(table[g].voterIds) + SumVotes(table, gs \ {g})

\* the number of times userId occurs in voterIds
CountOf(voterIds, userId) ==
  Cardinality({i \in DOMAIN voterIds : voterIds[i] = userId})

\* voterIds with its first occurrence of userId deleted
DeleteFirst(voterIds, userId) ==
  LET i == Min({j \in DOMAIN voterIds : voterIds[j] = userId})
  IN SubSeq(voterIds, 1, i - 1) \o SubSeq(voterIds, i + 1, Len(voterIds))

\* phases.find((phase) => phase.phaseType === phaseType): its index, 0 if none
FindPhase(phases, phaseType) ==
  LET idx == {i \in DOMAIN phases : phases[i].phaseType = phaseType}
  IN IF idx = {} THEN 0 ELSE Min(idx)

\* isPhaseComplete(phaseType, phases): every stage of the phase is complete
isPhaseComplete(phaseType, phases) ==
  LET i == FindPhase(phases, phaseType)
  IN /\ i # 0
     /\ \A s \in DOMAIN phases[i].stages : phases[i].stages[s].isComplete

\* isTeamMember(authToken, teamId)
isTeamMember(authToken, teamId) == teamId \in authToken.tms

\* unlockAllStagesForPhase(phases, phaseType, isForFacilitator, isUnlock):
\* sets the navigability flag of every stage of the phase in place and
\* returns the stages' ids; here the pair of the mutated phases and the ids.
unlockAllStagesForPhase(phases, phaseType, isForFacilitator, isUnlock) ==
  LET field == IF isForFacilitator THEN "isNavigableByFacilitator" ELSE "isNavigable"
      i == FindPhase(phases, phaseType)
  IN IF i = 0 THEN [phases |-> phases, stageIds |-> <<>>]
     ELSE [phases |->
             [phases EXCEPT ![i].stages =
                [s \in DOMAIN phases[i].stages |->
                   [phases[i].stages[s] EXCEPT ![field] = isUnlock]]],
           stageIds |-> [s \in DOMAIN phases[i].stages |-> phases[i].stages[s].id]]

\* the rows the retroReflectionGroupsByMeetingId loader returns
retroReflectionGroupsByMeetingId(table, meetingId) ==
  {g \in Groups : table[g].meetingId = meetingId /\ table[g].isActive}

\* standardError(new Error(message), ...): the error payload
standardError(message) == [error |-> [message |-> message]]

IsError(result) == "error" \in DOMAIN result

\* an optional value: None, or Some(v)
None == <<>>
Some(v) == <<v>>

\* r.table(...).get(id): the row, or null
Get(table, id) == IF id \in DOMAIN table THEN Some(table[id]) ELSE None

\* --------------------------------------------------- the meeting's phases
\* the stages every stage record carries
Stage(id, isComplete, isNavigableByFacilitator) ==
  [id |-> id, isComplete |-> isComplete, isNavigable |-> FALSE,
   isNavigableByFacilitator |-> isNavigableByFacilitator]

\* the phases of a retrospective that has reached the vote phase
InitialPhases(voteComplete) ==
  << [phaseType |-> "vote", stages |-> <<Stage(0, voteComplete, TRUE)>>],
     [phaseType |-> "discuss",
      stages |-> [i \in 1..NumDiscussStages |-> Stage(i, FALSE, FALSE)]] >>

\* the stages of the discuss phase of phases
DiscussStages(phases) == phases[FindPhase(phases, "discuss")].stages

\* ------------------------------------------------------------ the resolver
\* the locals of a resolve() invocation that has not started; phasesRead keeps
\* the phases as line 55 read them (phases itself is changed in place later)
IdleCall ==
  [pc |-> "idle", isUnvote |-> FALSE, reflectionGroupId |-> NoGroup,
   authToken |-> [sub |-> Null, tms |-> {}], meetingId |-> Null, phases |-> <<>>,
   phasesRead |-> <<>>,
   maxVotesPerGroup |-> 0, votingError |-> None, voteCount |-> 0,
   isUnlock |-> None, unlockedStageIds |-> None, result |-> [pending |-> TRUE]]

InFlight(c) == calls[c].pc \notin {"idle", "done"}

\* return <result> from resolve()
Return(cs, result) == [cs EXCEPT !.pc = "done", !.result = result]

\* lines 44-49: the check on the reflection group row
GroupCheck(reflectionGroup) ==
  IF reflectionGroup = None \/ ~reflectionGroup[1].isActive
  THEN Some(standardError("Reflection group not found"))
  ELSE None

\* MeetingCheck without the endedAt check of line 59
MeetingCheck_NoEndedCheck(authToken, meeting) ==
  IF ~isTeamMember(authToken, meeting.teamId)
    THEN Some(standardError("Team not found"))
  ELSE IF isPhaseComplete("vote", meeting.phases)
    THEN Some(standardError("Meeting phase already completed"))
  ELSE None

\* lines 55-62: the checks on the meeting row
MeetingCheck(authToken, meeting) ==
  IF ~isTeamMember(authToken, meeting.teamId)
    THEN Some(standardError("Team not found"))
  ELSE IF meeting.endedAt # Null
    THEN Some(standardError("Meeting already ended"))
  ELSE IF isPhaseComplete("vote", meeting.phases)
    THEN Some(standardError("Meeting phase already completed"))
  ELSE None

\* lines 72-74: the check on the meeting member row
MemberCheck(meetingMember) ==
  IF meetingMember = None
  THEN Some(standardError("Meeting member not found"))
  ELSE None

\* the helper has returned votingError (None for undefined)
Voted(cs, votingError) == [cs EXCEPT !.votingError = votingError]

\* AfterVote without the returns of lines 84 and 93
AfterVote_IgnoreError(cs) == [cs EXCEPT !.pc = "loadGroups"]

\* lines 84, 93: if (votingError) return votingError, else go on to the count
AfterVote(cs) ==
  IF cs.votingError # None
  THEN Return(cs, cs.votingError[1])
  ELSE [cs EXCEPT !.pc = "loadGroups"]

\* DecideUnlock with lines 111-113 dropped: a vote never unlocks
DecideUnlock_VoteNeverUnlocks(isUnvote, phases, voteCount) ==
  IF ~isUnvote THEN None
  ELSE IF voteCount = 0 THEN Some(FALSE) ELSE None

\* DecideUnlock with lines 114-118 dropped: an unvote never locks
DecideUnlock_UnvoteNeverLocks(isUnvote, phases, voteCount) ==
  IF ~isUnvote
  THEN LET firstStage == DiscussStages(phases)[1]
       IN IF ~firstStage.isNavigableByFacilitator THEN Some(TRUE) ELSE None
  ELSE None

\* DecideUnlock without the test of line 111: every vote unlocks
DecideUnlock_VoteAlwaysUnlocks(isUnvote, phases, voteCount) ==
  IF ~isUnvote THEN Some(TRUE)
  ELSE IF voteCount = 0 THEN Some(FALSE) ELSE None

\* lines 103-118: isUnlock, None when it stays undefined
DecideUnlock(isUnvote, phases, voteCount) ==
  IF ~isUnvote
  THEN LET firstStage == DiscussStages(phases)[1]
       IN IF ~firstStage.isNavigableByFacilitator THEN Some(TRUE) ELSE None
  ELSE IF voteCount = 0 THEN Some(FALSE) ELSE None

\* lines 130-135: the payload
PayloadData(cs) ==
  [meetingId |-> cs.meetingId, userId |-> cs.authToken.sub,
   reflectionGroupId |-> cs.reflectionGroupId,
   unlockedStageIds |-> cs.unlockedStageIds]

\* PublishedMessage on the TEAM channel, keyed by the viewer
PublishedMessage_TeamChannel(cs, data) ==
  [channel |-> "TEAM", channelId |-> cs.authToken.sub,
   type |-> "VoteForReflectionGroupPayload", data |-> data]

\* lines 136-142: what publish() puts on the wire
PublishedMessage(cs, data) ==
  [channel |-> "MEETING", channelId |-> cs.meetingId,
   type |-> "VoteForReflectionGroupPayload", data |-> data]

\* lines 130-143: build the payload, publish it, return it
PublishAndReturn(c, cs) ==
  LET data == PayloadData(cs)
  IN /\ published' = [published EXCEPT ![c] = Append(@, PublishedMessage(cs, data))]
     /\ trace' = [trace EXCEPT ![c] = Append(@, "publish")]
     /\ calls' = [calls EXCEPT ![c] = Return(cs, data)]

\* lines 29-50: a request arrives with its arguments and authToken, and reads
\* the reflection group (a group's isActive and meetingId never change here, so
\* the read is taken at the arrival)
Resolve(c) ==
  /\ calls[c].pc = "idle"
  /\ \A d \in Calls : d < c => calls[d].pc # "idle"
  /\ \E isUnvote \in BOOLEAN, reflectionGroupId \in Groups \cup {NoGroup},
        viewerId \in Users :
       LET cs == [calls[c] EXCEPT !.isUnvote = isUnvote,
                                  !.reflectionGroupId = reflectionGroupId,
                                  !.authToken = [sub |-> viewerId, tms |-> tms[viewerId]]]
           reflectionGroup == Get(RetroReflectionGroup, reflectionGroupId)
           err == GroupCheck(reflectionGroup)
       IN calls' = [calls EXCEPT ![c] =
                      IF err # None THEN Return(cs, err[1])
                      ELSE [cs EXCEPT !.pc = "getMeeting",
                                      !.meetingId = reflectionGroup[1].meetingId]]
  /\ overlapped' = (overlapped \/ \E d \in Calls : InFlight(d))
  /\ UNCHANGED <<dbVars, published, trace, persisted, editorVars, flightVars, toggleVars>>

\* lines 51-74: read the meeting and keep its phases, then read the viewer's
\* meeting member (whether a member row exists never changes here, so that
\* read is taken together with the meeting's)
GetMeeting(c) ==
  /\ calls[c].pc = "getMeeting"
  /\ LET cs == calls[c]
         meeting == NewMeeting
         err == MeetingCheck(cs.authToken, meeting)
         read == [cs EXCEPT !.phases = meeting.phases,
                            !.phasesRead = meeting.phases,
                            !.maxVotesPerGroup = meeting.maxVotesPerGroup]
         memberErr == MemberCheck(MeetingMember[cs.authToken.sub])
     IN /\ calls' = [calls EXCEPT ![c] =
                       IF err # None THEN Return(cs, err[1])
                       ELSE IF memberErr # None THEN Return(read, memberErr[1])
                       ELSE [read EXCEPT !.pc = "vote"]]
        /\ trace' = [trace EXCEPT ![c] =
                       IF err # None \/ memberErr # None THEN @
                       ELSE Append(@, "checks")]
  /\ UNCHANGED <<dbVars, published, persisted, overlapped, editorVars, flightVars, toggleVars>>

\* safelyCastVote, first update: take one of the viewer's remaining votes, or
\* fail with 'No votes remaining'
CastVoteTakeVote(c) ==
  /\ calls[c].pc = "vote"
  /\ ~calls[c].isUnvote
  /\ LET cs == calls[c]
         userId == cs.authToken.sub
         member == MeetingMember[userId][1]
     IN IF member.votesRemaining >= 1
        THEN /\ MeetingMember' = [MeetingMember EXCEPT ![userId] =
                  Some([member EXCEPT !.votesRemaining = @ - 1])]
             /\ calls' = [calls EXCEPT ![c].pc = "castAdd"]
        ELSE /\ calls' = [calls EXCEPT ![c] =
                  AfterVote(Voted(cs, Some(standardError("No votes remaining"))))]
             /\ UNCHANGED MeetingMember
  /\ UNCHANGED <<RetroReflectionGroup, NewMeeting, tms, published, trace,
                 persisted, overlapped, editorVars, flightVars, toggleVars>>

\* safelyCastVote, second update: append the viewer to the group's voterIds
\* unless the viewer already has maxVotesPerGroup votes on it
CastVoteAddToGroup(c) ==
  /\ calls[c].pc = "castAdd"
  /\ LET cs == calls[c]
         userId == cs.authToken.sub
         group == RetroReflectionGroup[cs.reflectionGroupId]
     IN IF CountOf(group.voterIds, userId) < cs.maxVotesPerGroup
        THEN /\ RetroReflectionGroup' =
                  [RetroReflectionGroup EXCEPT ![cs.reflectionGroupId].voterIds =
                     Append(@, userId)]
             /\ calls' = [calls EXCEPT ![c] = AfterVote(Voted(cs, None))]
             /\ trace' = [trace EXCEPT ![c] = Append(@, "vote")]
        ELSE /\ calls' = [calls EXCEPT ![c].pc = "castUndo"]
             /\ UNCHANGED <<RetroReflectionGroup, trace>>
  /\ UNCHANGED <<NewMeeting, MeetingMember, tms, published, persisted,
                 overlapped, editorVars, flightVars, toggleVars>>

\* safelyCastVote, third update: give the vote back and fail with
\* 'Max votes per group exceeded'
CastVoteGiveBack(c) ==
  /\ calls[c].pc = "castUndo"
  /\ LET cs == calls[c]
         userId == cs.authToken.sub
         member == MeetingMember[userId][1]
     IN /\ MeetingMember' = [MeetingMember EXCEPT ![userId] =
             Some([member EXCEPT !.votesRemaining = @ + 1])]
        /\ calls' = [calls EXCEPT ![c] =
             AfterVote(Voted(cs, Some(standardError("Max votes per group exceeded"))))]
  /\ UNCHANGED <<RetroReflectionGroup, NewMeeting, tms, published, trace,
                 persisted, overlapped, editorVars, flightVars, toggleVars>>

\* safelyWithdrawVote, first update: delete one occurrence of the viewer from
\* the group's voterIds, or fail with 'Already removed vote'
WithdrawVoteFromGroup(c) ==
  /\ calls[c].pc = "vote"
  /\ calls[c].isUnvote
  /\ LET cs == calls[c]
         userId == cs.authToken.sub
         group == RetroReflectionGroup[cs.reflectionGroupId]
     IN IF CountOf(group.voterIds, userId) >= 1
        THEN /\ RetroReflectionGroup' =
                  [RetroReflectionGroup EXCEPT ![cs.reflectionGroupId].voterIds =
                     DeleteFirst(@, userId)]
             /\ calls' = [calls EXCEPT ![c].pc = "withdrawGive"]
        ELSE /\ calls' = [calls EXCEPT ![c] =
                  AfterVote(Voted(cs, Some(standardError("Already removed vote"))))]
             /\ UNCHANGED RetroReflectionGroup
  /\ UNCHANGED <<NewMeeting, MeetingMember, tms, published, trace, persisted,
                 overlapped, editorVars, flightVars, toggleVars>>

\* safelyWithdrawVote, second update: give the vote back to the viewer
WithdrawVoteGiveBack(c) ==
  /\ calls[c].pc = "withdrawGive"
  /\ LET cs == calls[c]
         userId == cs.authToken.sub
         member == MeetingMember[userId][1]
     IN /\ MeetingMember' = [MeetingMember EXCEPT ![userId] =
             Some([member EXCEPT !.votesRemaining = @ + 1])]
        /\ calls' = [calls EXCEPT ![c] = AfterVote(Voted(cs, None))]
        /\ trace' = [trace EXCEPT ![c] = Append(@, "vote")]
  /\ UNCHANGED <<RetroReflectionGroup, NewMeeting, tms, published, persisted,
                 overlapped, editorVars, flightVars, toggleVars>>

\* lines 95-127 and, when isUnlock stays undefined, 130-143: count the votes,
\* decide isUnlock, then either set the stages in the local phases and issue
\* the update, or publish and return at once
LoadGroupsAndDecide(c) ==
  /\ calls[c].pc = "loadGroups"
  /\ LET cs == calls[c]
         reflectionGroups ==
           retroReflectionGroupsByMeetingId(RetroReflectionGroup, cs.meetingId)
         voteCount == SumVotes(RetroReflectionGroup, reflectionGroups)
         isUnlock == DecideUnlock(cs.isUnvote, cs.phases, voteCount)
         counted == [cs EXCEPT !.voteCount = voteCount, !.isUnlock = isUnlock]
     IN IF isUnlock # None
        THEN LET u == unlockAllStagesForPhase(cs.phases, "discuss", TRUE, isUnlock[1])
             IN /\ calls' = [calls EXCEPT ![c] =
                     [counted EXCEPT !.pc = "update", !.phases = u.phases,
                                     !.unlockedStageIds = Some(u.stageIds)]]
                /\ UNCHANGED <<published, trace>>
        ELSE PublishAndReturn(c, counted)
  /\ UNCHANGED <<dbVars, persisted, overlapped, editorVars, flightVars, toggleVars>>

\* lines 121-127: the update of the meeting row takes effect
UpdatePhases(c) ==
  /\ calls[c].pc = "update"
  /\ NewMeeting' = [NewMeeting EXCEPT !.phases = calls[c].phases]
  /\ persisted' = [persisted EXCEPT ![c] = Some(NewMeeting'.phases)]
  /\ trace' = [trace EXCEPT ![c] = Append(@, "write")]
  /\ calls' = [calls EXCEPT ![c].pc = "publish"]
  /\ UNCHANGED <<RetroReflectionGroup, MeetingMember, tms, published, overlapped,
                 editorVars, flightVars, toggleVars>>

\* lines 130-143, after the update was awaited
PublishAfterUpdate(c) ==
  /\ calls[c].pc = "publish"
  /\ PublishAndReturn(c, calls[c])
  /\ UNCHANGED <<dbVars, persisted, overlapped, editorVars, flightVars, toggleVars>>

\* ------------------------------------- StageTimerModalEndTimeSlackToggle, start
\* the channel Slack posts to when the toggle is switched on
DefaultTeamChannelId == "C1"

\* the toggle's first render: no mutation submitted yet; the facilitator's
\* integrations as the fragment of lines 105-122 delivers them
ToggleInit(slackIsActive, mattermostIsActive, channelId) ==
  /\ integrations =
       [mattermost |-> [isActive |-> mattermostIsActive],
        slack |-> [isActive |-> slackIsActive,
                   defaultTeamChannelId |-> DefaultTeamChannelId,
                   notifications |->
                     <<[event |-> "meetingStart", channelId |-> DefaultTeamChannelId],
                       [event |-> "MEETING_STAGE_TIME_LIMIT_START",
                        channelId |-> channelId]>>]]
  /\ submitting = FALSE
  /\ error = None
  /\ slackMutations = <<>>
  /\ oauthOpened = 0
  /\ clicksLeft = MaxClicks
  /\ lastClick = [submitting |-> FALSE, issued |-> FALSE, opened |-> FALSE]

\* --------------------------------------------------- PhaseItemEditor, start
\* no card is in flight and the portal is closed
FlightInit ==
  /\ cardsInFlight = <<>>
  /\ portalOpen = FALSE
  /\ rafQueue = {}
  /\ flightTimers = {}
  /\ nextContent = 1
  /\ lastRemoval = [by |-> "none", content |-> 0, before |-> <<>>, after |-> <<>>,
                    terminated |-> FALSE]

\* the component as first rendered
EditorInit ==
  /\ mounted = TRUE
  /\ isEditing = FALSE
  /\ idleTimerIdRef = 0
  /\ timers = {}
  /\ nextTimerId = 1
  /\ sent = <<>>
  /\ idleFor = 0
  /\ idleFiredAfter = -1
  /\ lastEvent = "mount"
  /\ eventsLeft = MaxEvents

\* ------------------------------------------------- the resolver's behaviours
\* what may be wrong with a request's target in one behaviour
Defects == {"none", "g2Inactive", "ended", "voteComplete", "u2NoMember", "u2NoTeam"}

\* the discuss stages of phases all get isNavigableByFacilitator = flag
WithDiscuss(phases, flag) ==
  unlockAllStagesForPhase(phases, "discuss", TRUE, flag).phases

\* a meeting in its vote phase in which u1 has already cast `cast` votes for g1
\* (the discuss phase is unlocked exactly if there is a vote), with `defect`,
\* one of the conditions the resolver checks, possibly failing
VoteStart(defect, cast) ==
       /\ RetroReflectionGroup =
            [g \in Groups |->
               [isActive |-> (g = "g1" \/ defect # "g2Inactive"),
                meetingId |-> MeetingId,
                voterIds |-> IF g = "g1" THEN [i \in 1..cast |-> "u1"] ELSE <<>>]]
       /\ NewMeeting =
            [endedAt |-> IF defect = "ended" THEN "2020-01-01" ELSE Null,
             phases |-> WithDiscuss(InitialPhases(defect = "voteComplete"), cast > 0),
             maxVotesPerGroup |-> MaxVotesPerGroup, teamId |-> TeamId]
       /\ MeetingMember =
            [u \in Users |->
               IF u = "u1" THEN Some([votesRemaining |-> TotalVotes - cast])
               ELSE IF defect = "u2NoMember" THEN None
               ELSE Some([votesRemaining |-> TotalVotes])]
       /\ tms = [u \in Users |->
                   IF u = "u2" /\ defect = "u2NoTeam" THEN {} ELSE {TeamId}]
  /\ calls = [c \in Calls |-> IdleCall]
  /\ published = [c \in Calls |-> <<>>]
  /\ trace = [c \in Calls |-> <<>>]
  /\ persisted = [c \in Calls |-> None]
  /\ overlapped = FALSE

\* no vote yet and possibly a defect, or one vote of u1 for g1 and no defect
VoteInit ==
  \E defect \in Defects, cast \in 0..1 :
    /\ defect = "none" \/ cast = 0
    /\ VoteStart(defect, cast)

Init == VoteInit /\ EditorInit /\ FlightInit /\ ToggleInit(FALSE, FALSE, Null)

Next ==
  \E c \in Calls :
    \/ Resolve(c)
    \/ GetMeeting(c)
    \/ CastVoteTakeVote(c)
    \/ CastVoteAddToGroup(c)
    \/ CastVoteGiveBack(c)
    \/ WithdrawVoteFromGroup(c)
    \/ WithdrawVoteGiveBack(c)
    \/ LoadGroupsAndDecide(c)
    \/ UpdatePhases(c)
    \/ PublishAfterUpdate(c)

Spec == Init /\ [][Next]_vars

\* ----------------------------------------------------------- PhaseItemEditor
\* the delay of the idle timer, ms
IdleDelay == 5000
\* the step by which time advances in the model, ms
TickMs == IdleDelay \div 2

\* window.clearTimeout(id) on the pending timers ts
clearTimeout(ts, id) == {t \in ts : t.id # id}

\* ensureNotEditing without the guard of line 208
ensureNotEditing_NoGuard ==
  /\ timers' = clearTimeout(timers, idleTimerIdRef)
  /\ idleTimerIdRef' = 0
  /\ sent' = Append(sent, FALSE)
  /\ isEditing' = FALSE
  /\ UNCHANGED <<nextTimerId, idleFor>>

\* lines 207-213
ensureNotEditing ==
  IF ~isEditing
  THEN UNCHANGED <<isEditing, idleTimerIdRef, timers, nextTimerId, sent, idleFor>>
  ELSE /\ timers' = clearTimeout(timers, idleTimerIdRef)
       /\ idleTimerIdRef' = 0
       /\ sent' = Append(sent, FALSE)
       /\ isEditing' = FALSE
       /\ UNCHANGED <<nextTimerId, idleFor>>

\* ensureEditing without the clearTimeout of line 224
ensureEditing_NoClear ==
  /\ sent' = IF ~isEditing THEN Append(sent, TRUE) ELSE sent
  /\ isEditing' = TRUE
  /\ timers' = timers \cup {[id |-> nextTimerId, remaining |-> IdleDelay]}
  /\ idleTimerIdRef' = nextTimerId
  /\ nextTimerId' = nextTimerId + 1
  /\ idleFor' = 0

\* ensureEditing that schedules the idle timer only when it starts editing
ensureEditing_TimerOnlyOnStart ==
  /\ sent' = IF ~isEditing THEN Append(sent, TRUE) ELSE sent
  /\ isEditing' = TRUE
  /\ timers' = IF ~isEditing
               THEN clearTimeout(timers, idleTimerIdRef)
                      \cup {[id |-> nextTimerId, remaining |-> IdleDelay]}
               ELSE clearTimeout(timers, idleTimerIdRef)
  /\ idleTimerIdRef' = IF ~isEditing THEN nextTimerId ELSE 0
  /\ nextTimerId' = nextTimerId + 1
  /\ idleFor' = 0

\* lines 215-233
ensureEditing ==
  /\ sent' = IF ~isEditing THEN Append(sent, TRUE) ELSE sent
  /\ isEditing' = TRUE
  /\ timers' = clearTimeout(timers, idleTimerIdRef)
                 \cup {[id |-> nextTimerId, remaining |-> IdleDelay]}
  /\ idleTimerIdRef' = nextTimerId
  /\ nextTimerId' = nextTimerId + 1
  /\ idleFor' = 0

\* lines 225-232: the idle timer's callback
idleCallback ==
  /\ sent' = Append(sent, FALSE)
  /\ isEditing' = FALSE

\* lines 148-152: the effect's cleanup
cleanup == timers' = clearTimeout(timers, idleTimerIdRef)

\* line 264: onFocus={ensureEditing}
OnFocus ==
  /\ mounted /\ eventsLeft > 0
  /\ ensureEditing
  /\ lastEvent' = "focus"
  /\ eventsLeft' = eventsLeft - 1
  /\ UNCHANGED <<mounted, idleFiredAfter, voteVars, flightVars, toggleVars>>

\* line 267: keyBindingFn={ensureEditing}
OnKey ==
  /\ mounted /\ eventsLeft > 0
  /\ ensureEditing
  /\ lastEvent' = "key"
  /\ eventsLeft' = eventsLeft - 1
  /\ UNCHANGED <<mounted, idleFiredAfter, voteVars, flightVars, toggleVars>>

\* line 263: onBlur={ensureNotEditing}
OnBlur ==
  /\ mounted /\ eventsLeft > 0
  /\ ensureNotEditing
  /\ lastEvent' = IF isEditing THEN "blurEditing" ELSE "blurIdle"
  /\ eventsLeft' = eventsLeft - 1
  /\ UNCHANGED <<mounted, idleFiredAfter, voteVars, flightVars, toggleVars>>

\* the window runs the callback of a pending timer that is due
IdleTimeout ==
  /\ \E t \in timers :
       /\ t.remaining = 0
       /\ timers' = timers \ {t}
  /\ idleCallback
  /\ idleFiredAfter' = idleFor
  /\ lastEvent' = "idle"
  /\ UNCHANGED <<mounted, idleTimerIdRef, nextTimerId, idleFor, eventsLeft, voteVars, flightVars, toggleVars>>

\* TickMs pass
Tick ==
  /\ \/ idleFor < IdleDelay
     \/ \E t \in timers : t.remaining > 0
     \/ \E t \in flightTimers : t.remaining > 0
  /\ timers' = {[t EXCEPT !.remaining = IF @ > TickMs THEN @ - TickMs ELSE 0] :
                  t \in timers}
  /\ flightTimers' =
       {[t EXCEPT !.remaining = IF @ > TickMs THEN @ - TickMs ELSE 0] :
          t \in flightTimers}
  /\ idleFor' = IF idleFor + TickMs > IdleDelay THEN IdleDelay ELSE idleFor + TickMs
  /\ UNCHANGED <<mounted, isEditing, idleTimerIdRef, nextTimerId, sent,
                 idleFiredAfter, lastEvent, eventsLeft, voteVars, cardsInFlight,
                 portalOpen, rafQueue, nextContent, lastRemoval, toggleVars>>

\* the component unmounts: React runs the effect's cleanup
Unmount ==
  /\ mounted
  /\ mounted' = FALSE
  /\ cleanup
  /\ lastEvent' = "unmount"
  /\ UNCHANGED <<isEditing, idleTimerIdRef, nextTimerId, sent, idleFor,
                 idleFiredAfter, eventsLeft, voteVars, flightVars, toggleVars>>

EditorNext == OnFocus \/ OnKey \/ OnBlur \/ IdleTimeout \/ Tick \/ Unmount

\* the editor alone: no request ever arrives
EditorStart ==
  /\ VoteStart("none", 0)
  /\ calls = [c \in Calls |-> IdleCall]
  /\ published = [c \in Calls |-> <<>>]
  /\ trace = [c \in Calls |-> <<>>]
  /\ persisted = [c \in Calls |-> None]
  /\ overlapped = FALSE
  /\ EditorInit
  /\ FlightInit
  /\ ToggleInit(FALSE, FALSE, Null)

EditorSpec == EditorStart /\ [][EditorNext]_vars

\* time passes and the window runs due timers
FairEditorSpec == EditorSpec /\ WF_vars(Tick) /\ WF_vars(IdleTimeout)

\* --------------------------------------------- PhaseItemEditor, cards in flight
\* the time a card flies, ms
FLIGHT_TIME == 500

\* Array.prototype.slice(begin, end) on a sequence: 0-based, end exclusive,
\* a negative index counts from the end
JsSlice(seq, begin, end) ==
  LET n == Len(seq)
      norm(i) == IF i < 0 THEN (IF n + i < 0 THEN 0 ELSE n + i)
                 ELSE (IF i > n THEN n ELSE i)
  IN SubSeq(seq, norm(begin) + 1, norm(end))

\* cards.findIndex((card) => card.key === content): 0-based, -1 if none
findIndex(cards, content) ==
  LET idx == {i \in DOMAIN cards : cards[i].key = content}
  IN IF idx = {} THEN -1 ELSE Min(idx) - 1

\* usePortal's openPortal and terminatePortal, as the new value of portalOpen
openPortal == TRUE
terminatePortal == FALSE

\* lines 164-169: the card a submission puts in flight
CardInFlight(content) ==
  [key |-> content, editorState |-> content, isStart |-> TRUE, transform |-> "editor"]

\* lines 177-185: the list with the submission's card moved to the stack
MoveToStack(cards, content) ==
  LET idx == findIndex(cards, content)
  IN JsSlice(cards, 0, idx)
       \o <<[CardInFlight(content) EXCEPT !.isStart = FALSE, !.transform = "stack"]>>
       \o JsSlice(cards, idx + 1, Len(cards))

\* removeCardInFlight that calls terminatePortal whenever it removes a card
removeCardInFlight_AlwaysTerminates(cards, content) ==
  LET idx == findIndex(cards, content)
  IN IF idx = -1 THEN [cards |-> cards, terminate |-> FALSE]
     ELSE [cards |-> JsSlice(cards, 0, idx) \o JsSlice(cards, idx + 1, Len(cards)),
           terminate |-> TRUE]

\* removeCardInFlight without its second slice: the cards after idx are lost
removeCardInFlight_DropsRest(cards, content) ==
  LET idx == findIndex(cards, content)
  IN IF idx = -1 THEN [cards |-> cards, terminate |-> FALSE]
     ELSE LET nextCardsInFlight == JsSlice(cards, 0, idx)
          IN [cards |-> nextCardsInFlight,
              terminate |-> (Len(nextCardsInFlight) = 0)]

\* lines 241-250: the next list, and whether terminatePortal is called
removeCardInFlight(cards, content) ==
  LET idx == findIndex(cards, content)
  IN IF idx = -1 THEN [cards |-> cards, terminate |-> FALSE]
     ELSE LET nextCardsInFlight ==
                JsSlice(cards, 0, idx) \o JsSlice(cards, idx + 1, Len(cards))
          IN [cards |-> nextCardsInFlight,
              terminate |-> (Len(nextCardsInFlight) = 0)]

\* a removeCardInFlight(content) callback runs
RunRemoval(content, by) ==
  LET r == removeCardInFlight(cardsInFlight, content)
  IN /\ cardsInFlight' = r.cards
     /\ portalOpen' = IF r.terminate THEN terminatePortal ELSE portalOpen
     /\ lastRemoval' = [by |-> by, content |-> content, before |-> cardsInFlight,
                        after |-> r.cards, terminated |-> r.terminate]

\* lines 154-190: handleSubmit(content); the content is the JSON of a Draft raw
\* content state, whose block keys are new for every submission, so no two
\* submissions have the same content
HandleSubmit ==
  /\ mounted
  /\ nextContent <= MaxSubmits
  /\ LET content == nextContent
     IN /\ portalOpen' = openPortal
        /\ cardsInFlight' = Append(cardsInFlight, CardInFlight(content))
        /\ rafQueue' = rafQueue \cup {content}
  /\ nextContent' = nextContent + 1
  /\ UNCHANGED <<flightTimers, lastRemoval, voteVars, editorVars, toggleVars>>

\* lines 172-187: the animation-frame callback of a submission; getBBox gives
\* null when stackTopRef.current is null
AnimationFrame ==
  /\ \E content \in rafQueue, stackBBox \in {"null", "bbox"} :
       /\ rafQueue' = rafQueue \ {content}
       /\ IF stackBBox = "null"
          THEN UNCHANGED <<cardsInFlight, flightTimers>>
          ELSE /\ cardsInFlight' = MoveToStack(cardsInFlight, content)
               /\ flightTimers' = flightTimers
                    \cup {[content |-> content, remaining |-> FLIGHT_TIME]}
  /\ UNCHANGED <<portalOpen, nextContent, lastRemoval, voteVars, editorVars, toggleVars>>

\* line 186: the timeout of a submission is due
FlightTimeout ==
  /\ \E t \in flightTimers :
       /\ t.remaining = 0
       /\ flightTimers' = flightTimers \ {t}
       /\ RunRemoval(t.content, "timeout")
  /\ UNCHANGED <<rafQueue, nextContent, voteVars, editorVars, toggleVars>>

\* lines 274-286: the transition of a card that was moved to the stack ends
TransitionEnd ==
  /\ \E i \in DOMAIN cardsInFlight :
       /\ ~cardsInFlight[i].isStart
       /\ RunRemoval(cardsInFlight[i].key, "transitionEnd")
  /\ UNCHANGED <<rafQueue, flightTimers, nextContent, voteVars, editorVars, toggleVars>>

FlightNext == HandleSubmit \/ AnimationFrame \/ FlightTimeout \/ TransitionEnd \/ Tick

\* the mounted editor with no card in flight
FlightStart == EditorStart

FlightSpec == FlightStart /\ [][FlightNext]_vars

\* ------------------------------------------ StageTimerModalEndTimeSlackToggle
\* lines 66-70: the time-limit notification has a channel
slackToggleActive ==
  LET notifications == integrations.slack.notifications
      found == {i \in DOMAIN notifications :
                  notifications[i].event = "MEETING_STAGE_TIME_LIMIT_START"}
  IN found # {} /\ notifications[Min(found)].channelId # Null

\* line 75
noActiveIntegrations ==
  ~integrations.slack.isActive /\ ~integrations.mattermost.isActive

\* lines 79-84: the button that calls onClick is rendered
ButtonRendered == integrations.slack.isActive \/ noActiveIntegrations

\* useMutationProps' submitMutation: submitting becomes true
submitMutation == submitting' = TRUE

\* lines 82-86: the variables of the mutation
Variables ==
  [slackChannelId |-> IF slackToggleActive THEN Null
                      ELSE integrations.slack.defaultTeamChannelId,
   slackNotificationEvents |-> <<"MEETING_STAGE_TIME_LIMIT_START">>,
   teamId |-> TeamId]

\* onClick that does not look at submitting
onClick_NoSubmittingGuard ==
  IF integrations.slack.isActive
  THEN /\ submitMutation
       /\ slackMutations' = Append(slackMutations, Variables)
       /\ UNCHANGED <<error, oauthOpened>>
  ELSE /\ oauthOpened' = oauthOpened + 1
       /\ UNCHANGED <<submitting, error, slackMutations>>

\* lines 77-91
onClick ==
  IF integrations.slack.isActive
  THEN IF submitting
       THEN UNCHANGED <<submitting, error, slackMutations, oauthOpened>>
       ELSE /\ submitMutation
            /\ slackMutations' = Append(slackMutations, Variables)
            /\ UNCHANGED <<error, oauthOpened>>
  ELSE /\ oauthOpened' = oauthOpened + 1
       /\ UNCHANGED <<submitting, error, slackMutations>>

\* a click on the button row
Click ==
  /\ clicksLeft > 0
  /\ ButtonRendered
  /\ onClick
  /\ clicksLeft' = clicksLeft - 1
  /\ lastClick' = [submitting |-> submitting,
                   issued |-> slackMutations' # slackMutations,
                   opened |-> oauthOpened' # oauthOpened]
  /\ UNCHANGED <<integrations, voteVars, editorVars, flightVars>>

\* the server answers a request: onCompleted ends the submission, and the
\* notification takes the channel that was sent
MutationCompleted ==
  /\ \E i \in DOMAIN slackMutations :
       /\ slackMutations' = JsSlice(slackMutations, 0, i - 1)
                              \o JsSlice(slackMutations, i, Len(slackMutations))
       /\ integrations' =
            [integrations EXCEPT !.slack.notifications =
               [n \in DOMAIN @ |->
                  IF @[n].event = "MEETING_STAGE_TIME_LIMIT_START"
                  THEN [@[n] EXCEPT !.channelId = slackMutations[i].slackChannelId]
                  ELSE @[n]]]
  /\ submitting' = FALSE
  /\ error' = None
  /\ UNCHANGED <<oauthOpened, clicksLeft, lastClick, voteVars, editorVars, flightVars>>

\* a request fails: onError ends the submission and keeps the error
MutationError ==
  /\ \E i \in DOMAIN slackMutations :
       slackMutations' = JsSlice(slackMutations, 0, i - 1)
                           \o JsSlice(slackMutations, i, Len(slackMutations))
  /\ submitting' = FALSE
  /\ error' = Some("error")
  /\ UNCHANGED <<integrations, oauthOpened, clicksLeft, lastClick, voteVars,
                 editorVars, flightVars>>

ToggleNext == Click \/ MutationCompleted \/ MutationError

\* a toggle at its first render, for every combination of integrations
ToggleStart ==
  /\ VoteStart("none", 0)
  /\ calls = [c \in Calls |-> IdleCall]
  /\ published = [c \in Calls |-> <<>>]
  /\ trace = [c \in Calls |-> <<>>]
  /\ persisted = [c \in Calls |-> None]
  /\ overlapped = FALSE
  /\ EditorInit
  /\ FlightInit
  /\ \E slackIsActive \in BOOLEAN, mattermostIsActive \in BOOLEAN,
        channelId \in {Null, DefaultTeamChannelId} :
       ToggleInit(slackIsActive, mattermostIsActive, channelId)

ToggleSpec == ToggleStart /\ [][ToggleNext]_vars

\* ===================================================================== claims
\* the request has returned a payload, not an error
Succeeded(c) == calls[c].pc = "done" /\ ~IsError(calls[c].result)

\* every stage of the discuss phase of phases has isNavigableByFacilitator = flag
AllDiscussStages(phases, flag) ==
  \A i \in DOMAIN DiscussStages(phases) :
    DiscussStages(phases)[i].isNavigableByFacilitator = flag

\* the ids of the stages of the discuss phase
DiscussStageIds(phases) ==
  [i \in DOMAIN DiscussStages(phases) |-> DiscussStages(phases)[i].id]

\* the first discuss stage as the request read it at line 55
ReadNavigable(c) == DiscussStages(calls[c].phasesRead)[1].isNavigableByFacilitator

\* the votes on all reflection groups of the meeting
TotalVoteCount == SumVotes(RetroReflectionGroup, Groups)

\* C1: a request that returns no error has gone through the checks, then the
\* vote or unvote, then the write of the phases if there is one, then exactly
\* one publish; the notification is on the MEETING channel keyed by the
\* meetingId of the voted group and carries the payload (meetingId, userId,
\* reflectionGroupId, unlockedStageIds) that the resolver returns.
C1_OrderAndPayload ==
  \A c \in Calls :
    Succeeded(c) =>
      LET cs == calls[c] IN
      /\ trace[c] = IF persisted[c] = None
                    THEN <<"checks", "vote", "publish">>
                    ELSE <<"checks", "vote", "write", "publish">>
      /\ Len(published[c]) = 1
      /\ published[c][1].channel = "MEETING"
      /\ published[c][1].channelId =
           RetroReflectionGroup[cs.reflectionGroupId].meetingId
      /\ published[c][1].data = cs.result
      /\ cs.result = [meetingId |-> RetroReflectionGroup[cs.reflectionGroupId].meetingId,
                      userId |-> cs.authToken.sub,
                      reflectionGroupId |-> cs.reflectionGroupId,
                      unlockedStageIds |-> cs.unlockedStageIds]

\* a request has succeeded after writing the phases
C1_Witness ==
  \E c \in Calls :
    Succeeded(c) /\ persisted[c] # None /\ Len(published[c]) = 1

\* the conditions of C2 for request c: the group is missing or inactive, the
\* viewer is not on the meeting's team, the meeting has ended, the vote phase
\* is complete, or the viewer has no MeetingMember row
Rejected(c) ==
  LET cs == calls[c]
      group == Get(RetroReflectionGroup, cs.reflectionGroupId)
  IN \/ group = None
     \/ ~group[1].isActive
     \/ NewMeeting.teamId \notin cs.authToken.tms
     \/ NewMeeting.endedAt # Null
     \/ isPhaseComplete("vote", NewMeeting.phases)
     \/ MeetingMember[cs.authToken.sub] = None

\* C2: a request for which one of the conditions of Rejected holds never gets
\* past the checks: it casts and withdraws no vote, writes no phases and
\* publishes nothing, and what it returns is an error.
C2_RejectedLeavesStateUnchanged ==
  \A c \in Calls :
    (calls[c].pc # "idle" /\ Rejected(c)) =>
      /\ calls[c].pc \in {"getMeeting", "done"}
      /\ trace[c] = <<>>
      /\ published[c] = <<>>
      /\ persisted[c] = None
      /\ calls[c].pc = "done" => IsError(calls[c].result)

\* a request on an ended meeting has returned its error
C2_Witness ==
  \E c \in Calls :
    /\ calls[c].pc = "done" /\ Rejected(c)
    /\ NewMeeting.endedAt # Null
    /\ calls[c].result = standardError("Meeting already ended")

\* C3: when safelyCastVote or safelyWithdrawVote has returned an error, the
\* request has returned that same error, has written no phases and has
\* published nothing.
C3_VotingErrorReturned ==
  \A c \in Calls :
    calls[c].votingError # None =>
      /\ calls[c].pc = "done"
      /\ calls[c].result = calls[c].votingError[1]
      /\ "write" \notin {trace[c][i] : i \in DOMAIN trace[c]}
      /\ persisted[c] = None
      /\ published[c] = <<>>

\* a vote and an unvote have both returned their helper's error
C3_Witness ==
  /\ \E c \in Calls :
       /\ ~calls[c].isUnvote /\ calls[c].pc = "done"
       /\ calls[c].votingError = Some(standardError("Max votes per group exceeded"))
  /\ \E c \in Calls :
       /\ calls[c].isUnvote /\ calls[c].pc = "done"
       /\ calls[c].votingError = Some(standardError("Already removed vote"))

\* C4: a vote that succeeds and had read the first discuss stage as not
\* navigable by the facilitator has unlocked every stage of the discuss phase,
\* the meeting row held those unlocked phases right after its update, the
\* update came before the publish, and the payload's unlockedStageIds are the
\* ids of the discuss stages.
C4_VoteUnlocksDiscuss ==
  \A c \in Calls :
    (Succeeded(c) /\ ~calls[c].isUnvote /\ ~ReadNavigable(c)) =>
      /\ persisted[c] # None
      /\ AllDiscussStages(persisted[c][1], TRUE)
      /\ trace[c] = <<"checks", "vote", "write", "publish">>
      /\ calls[c].result.unlockedStageIds =
           Some(DiscussStageIds(calls[c].phasesRead))
      /\ published[c][1].data.unlockedStageIds =
           Some(DiscussStageIds(calls[c].phasesRead))

\* a vote that had read the discuss phase as locked has succeeded
C4_Witness ==
  \E c \in Calls :
    /\ Succeeded(c) /\ ~calls[c].isUnvote /\ ~ReadNavigable(c)
    /\ Len(DiscussStageIds(calls[c].phasesRead)) = NumDiscussStages

\* C5: an unvote that succeeds and counts 0 votes over the meeting's groups
\* has locked every stage of the discuss phase, the meeting row held those
\* locked phases right after its update, and the update came before the
\* publish.
C5_LastUnvoteLocksDiscuss ==
  \A c \in Calls :
    (Succeeded(c) /\ calls[c].isUnvote /\ calls[c].voteCount = 0) =>
      /\ calls[c].isUnlock = Some(FALSE)
      /\ persisted[c] # None
      /\ AllDiscussStages(persisted[c][1], FALSE)
      /\ trace[c] = <<"checks", "vote", "write", "publish">>

\* an unvote that left no vote has succeeded on a meeting it had read unlocked
C5_Witness ==
  \E c \in Calls :
    /\ Succeeded(c) /\ calls[c].isUnvote /\ calls[c].voteCount = 0
    /\ ReadNavigable(c)

\* no request is running
Quiescent == \A c \in Calls : ~InFlight(c)

\* the discuss phase is navigable by the facilitator exactly if there is a vote
NavigableIffVotes ==
  IF TotalVoteCount > 0
  THEN AllDiscussStages(NewMeeting.phases, TRUE)
  ELSE AllDiscussStages(NewMeeting.phases, FALSE)

\* C6 as stated: whenever no request is running, whatever the interleaving of
\* the requests so far, the discuss phase is navigable by the facilitator if
\* and only if the meeting has a vote.
C6_NavigableIffVotes_AnyInterleaving == Quiescent => NavigableIffVotes

\* C6 amended: when the requests so far ran one after the other, none starting
\* while another was running, and no request is running, the discuss phase is
\* navigable by the facilitator if and only if the meeting has a vote.
C6_NavigableIffVotes_Serial == (Quiescent /\ ~overlapped) => NavigableIffVotes

\* requests ran one after the other; the last one, an unvote, locked the
\* discuss phase again
C6_Witness ==
  /\ ~overlapped
  /\ \A c \in Calls : calls[c].pc = "done"
  /\ \E c \in Calls : Succeeded(c) /\ calls[c].isUnvote /\ calls[c].voteCount = 0
  /\ \E c \in Calls : Succeeded(c) /\ ~calls[c].isUnvote

\* C7: a vote that succeeds and had read the first discuss stage as navigable
\* by the facilitator, and an unvote that succeeds and counts more than 0
\* votes, do not write the meeting row, return and publish a payload whose
\* unlockedStageIds is undefined, and still publish one notification.
C7_NoWriteWhenNothingToToggle ==
  \A c \in Calls :
    (/\ Succeeded(c)
     /\ \/ ~calls[c].isUnvote /\ ReadNavigable(c)
        \/ calls[c].isUnvote /\ calls[c].voteCount > 0) =>
      /\ persisted[c] = None
      /\ trace[c] = <<"checks", "vote", "publish">>
      /\ calls[c].result.unlockedStageIds = None
      /\ Len(published[c]) = 1
      /\ published[c][1].data.unlockedStageIds = None

\* a vote on an unlocked meeting and an unvote that left a vote have succeeded
C7_Witness ==
  /\ \E c \in Calls : Succeeded(c) /\ ~calls[c].isUnvote /\ ReadNavigable(c)
  /\ \E c \in Calls : Succeeded(c) /\ calls[c].isUnvote /\ calls[c].voteCount > 0

\* the last EditReflectionMutation sent said isEditing true
AwaitingFalse == sent # <<>> /\ sent[Len(sent)] = TRUE

\* C8 as stated, at rest: once the editor is unmounted and no timer is pending
\* nothing can send a mutation any more, so every isEditing true sent must
\* already have been followed by an isEditing false, also when the editor was
\* unmounted while editing.
C8_EveryEditingEnds_AlsoOnUnmount == (~mounted /\ timers = {}) => ~AwaitingFalse

\* C8 amended: every EditReflectionMutation sent with isEditing true is
\* eventually followed by one with isEditing false (after a blur or after the
\* idle delay) unless the editor is unmounted first; the cleanup at unmount
\* only cancels the idle timer.
C8_EveryEditingEnds_WhileMounted == AwaitingFalse ~> (~AwaitingFalse \/ ~mounted)

\* the idle timer has ended an editing that a focus or key had started
C8_Witness ==
  /\ lastEvent = "idle"
  /\ Len(sent) >= 2
  /\ sent[Len(sent) - 1] = TRUE /\ sent[Len(sent)] = FALSE
  /\ mounted

\* C9: the isEditing values sent alternate, starting with true: the odd ones
\* are true and the even ones false, so no two in a row are equal.
C9_SentAlternates ==
  \A i \in DOMAIN sent : sent[i] = (i % 2 = 1)

\* true, false (by the idle timer), true, false (by a blur) have been sent
C9_Witness ==
  /\ Len(sent) >= 4
  /\ lastEvent = "blurEditing"
  /\ idleFiredAfter >= 0

\* C10: at most one idle timer is pending; the idle callback has only ever run
\* IdleDelay ms or more after the last focus or key event; and no timer is
\* pending after a blur handled while editing or after the unmount.
C10_OneIdleTimer ==
  /\ Cardinality(timers) <= 1
  /\ idleFiredAfter # -1 => idleFiredAfter >= IdleDelay
  /\ lastEvent \in {"blurEditing", "unmount"} => timers = {}

\* the idle callback has run although an earlier timer had been replaced by a
\* key or focus event when part of its delay had passed
C10_Witness ==
  /\ lastEvent = "idle"
  /\ idleFiredAfter >= IdleDelay
  /\ nextTimerId >= 3
  /\ Len(sent) = 2

\* ---------------------------------------------------------------------- C11
\* no animation-frame callback is pending, no timeout is pending and no card
\* is moving to the stack: nothing is left that could remove a card
FlightAtRest ==
  /\ rafQueue = {}
  /\ flightTimers = {}
  /\ \A i \in DOMAIN cardsInFlight : cardsInFlight[i].isStart

\* C11: every card that handleSubmit adds to the cards in flight is removed
\* by its transition end or its timeout, so once no callback is pending the
\* list is empty.
C11_EveryCardLands == FlightAtRest => cardsInFlight = <<>>

\* a card was submitted, its animation frame ran, and it is still in flight
\* with the portal open although nothing is pending
C11_StrandedCard ==
  /\ FlightAtRest
  /\ cardsInFlight # <<>>
  /\ portalOpen

\* ---------------------------------------------------------------------- C12
\* the last removeCardInFlight call took a card out of the list
RemovedACard == lastRemoval.by # "none" /\ lastRemoval.after # lastRemoval.before

\* C12: the portal is open whenever a card is in flight, and terminatePortal
\* is called exactly by a removal that empties the list, never while another
\* card is still in flight.
C12_PortalOpenWhileInFlight ==
  /\ cardsInFlight # <<>> => portalOpen
  /\ lastRemoval.terminated <=> (RemovedACard /\ lastRemoval.after = <<>>)

\* a card was removed while another one stayed in flight, and the portal is
\* still open
C12_Witness ==
  /\ RemovedACard
  /\ Len(lastRemoval.before) = 2
  /\ cardsInFlight = lastRemoval.after
  /\ Len(cardsInFlight) = 1
  /\ ~lastRemoval.terminated
  /\ portalOpen

\* ---------------------------------------------------------------------- C13
\* the 1-based positions of the cards with this key
Holders(cards, content) == {i \in DOMAIN cards : cards[i].key = content}

\* the list without the first card that has this key
WithoutFirst(cards, content) ==
  IF Holders(cards, content) = {} THEN cards
  ELSE LET first == CHOOSE i \in Holders(cards, content) :
                      \A j \in Holders(cards, content) : i <= j
       IN [j \in 1..(Len(cards) - 1) |-> IF j < first THEN cards[j] ELSE cards[j + 1]]

\* C13: removeCardInFlight(content) removes only the first card whose key is
\* content and keeps the other cards and their order; when no card has that
\* key it changes nothing and does not terminate the portal.
C13_RemovesOnlyThatCard ==
  lastRemoval.by # "none" =>
    /\ lastRemoval.after = WithoutFirst(lastRemoval.before, lastRemoval.content)
    /\ Len(lastRemoval.before) - Len(lastRemoval.after) <= 1
    /\ Holders(lastRemoval.before, lastRemoval.content) = {} =>
         /\ lastRemoval.after = lastRemoval.before
         /\ ~lastRemoval.terminated

\* the timeout of a card that its transition end had already removed ran
\* while another card was in flight, and that card is still there
C13_Witness ==
  /\ lastRemoval.by = "timeout"
  /\ Holders(lastRemoval.before, lastRemoval.content) = {}
  /\ lastRemoval.before # <<>>
  /\ cardsInFlight = lastRemoval.before
  /\ portalOpen

\* ---------------------------------------------------------------------- C14
\* C14: with Slack active, a click made while a mutation is submitting sends
\* nothing, and at most one SetSlackNotificationMutation of the toggle is in
\* flight.
C14_OneMutationInFlight ==
  integrations.slack.isActive =>
    /\ Len(slackMutations) <= 1
    /\ lastClick.submitting => ~lastClick.issued /\ ~lastClick.opened

\* Slack is active, a click was made during a submission, and the request
\* of the earlier click is the only one in flight
C14_Witness ==
  /\ integrations.slack.isActive
  /\ lastClick.submitting
  /\ clicksLeft <= MaxClicks - 2
  /\ submitting
  /\ Len(slackMutations) = 1

====
